---- MODULE Spec2Model ----
(***************************************************************************)
(* A model of elliott.py, the release-advisory command line tool.          *)
(*                                                                         *)
(*   advisory:create       (the release date calculation)   -> SpecCreate  *)
(*   advisory:find-builds  (discovery, enrichment through a thread pool,   *)
(*                          filter, attach or report)       -> Spec        *)
(*   advisory:find-bugs    (search, flags, add or report)   -> SpecBugs    *)
(*   bugzilla:find-transitions  (the invalid-transition comment, over      *)
(*                          several runs)            -> SpecTransitions    *)
(*                                                                         *)
(* The remote services (Brew, the Errata Tool, Bugzilla) are the           *)
(* environment: every answer they give is drawn with \E when the call is   *)
(* made.                                                                   *)
(***************************************************************************)
EXTENDS Integers, Sequences, FiniteSets, TLC

(***************************************************************************)
(* Bounds of the model.                                                    *)
(***************************************************************************)
\* the first previous release date considered, in days since 1970-01-01
\* (19723 is 2024-01-01, a Monday)
FirstDay == 19723
\* how many consecutive previous release dates are considered
NumDays == 35
\* how many builds Brew knows
NumBuilds == 3
\* the most --build options given on the command line
MaxBuilds == 2
\* the most cpu_count() returns, the size of the thread pool
MaxWorkers == 2
\* how many bugs Bugzilla knows
NumBugs == 2
\* the most --id options given on the command line
MaxIds == 2
\* how many times bugzilla:find-transitions is run, one run after the other
MaxRuns == 2

(***************************************************************************)
(* Program constants.                                                      *)
(***************************************************************************)
\* datetime.timedelta(days=21)
ReleaseInterval == 21
\* "Tuesdays are '2' with Sunday indexed as '0'"
Tuesday == 2

VARIABLES
    \* ---- advisory:create ----
    cpc,            \* position in create()
    date_given,     \* TRUE when the user passed --date
    latest_date,    \* latest_advisory.release_date (days since the epoch)
    release_date,   \* the local release_date
    adjusted,       \* TRUE when "Adjusted release date ..." was printed
    \* ---- advisory:find-builds: the options and the configuration ----
    pc,             \* position of the main thread in find_builds()
    builds,         \* --build, the identifiers given, in order
    kind,           \* --kind
    advisory,       \* --attach, False when not given
    ncpu,           \* cpu_count()
    non_release,    \* runtime.group_config.get('non_release', [])
    \* ---- Brew, as far as the run has seen it ----
    tagC,           \* builds seen carrying the candidate tag
    tagS,           \* builds seen carrying the shipped tag
    \* ---- the locals of find_builds() ----
    initial_builds,     \* runtime.image_metas()
    potential_builds,   \* the (n, v, r) tuples of the image builds
    results,            \* the records fetched so far (list under construction)
    unshipped_builds,
    build_count,
    \* ---- the thread pool of the pool.map in progress ----
    mapfn,          \* the function being mapped
    tasks,          \* the iterable given to pool.map, as a list
    next,           \* index of the next task of the queue
    worker,         \* worker thread -> index of the task it runs, 0 when idle
    completed,      \* indices of the tasks that returned a value
    fetches,        \* task index -> calls made for it
    fetchError,     \* the first exception a metadata fetch raised, "none" when none
    \* ---- the Errata Tool ----
    et,             \* calls made and builds attached
    \* ---- what the run printed ----
    echo,
    \* ---- advisory:find-bugs ----
    bpc,            \* position in find_bugs()
    auto,           \* --auto
    id,             \* --id, the bug ids given, in order
    flag,           \* --flag, the flags given
    bug_advisory,   \* --add, False when not given
    bug_ids,        \* the local bug_ids
    bug_k,          \* index of the bug the add_flags loop is at
    bz_flags,       \* Bugzilla: bug -> flags set on it
    advisory_bugs,  \* the Errata Tool: bugs on the advisory
    bug_calls,      \* calls made that change or read the advisory, or set flags
    bug_echo,       \* what find_bugs printed
    \* ---- bugzilla:find-transitions ----
    tpc,            \* position in find_transitions()
    add_comment,    \* --add-comment
    found,          \* the local bug_ids of find_transitions()
    found_k,        \* index of the bug the loop is at
    bz_comments,    \* Bugzilla: bug -> invalid-transition comments on it
    bz_whiteboard,  \* Bugzilla: bug -> it carries 'ocp_art_invalid_transition'
    runs            \* runs started so far

cvars == <<cpc, date_given, latest_date, release_date, adjusted>>

optvars == <<builds, kind, advisory, non_release>>
brewvars == <<tagC, tagS>>
localvars == <<initial_builds, potential_builds, results, unshipped_builds, build_count>>
poolvars == <<ncpu, mapfn, tasks, next, worker, completed, fetches, fetchError>>
bvars == <<pc, optvars, brewvars, localvars, poolvars, et, echo>>

fbvars == <<bpc, auto, id, flag, bug_advisory, bug_ids, bug_k, bz_flags, advisory_bugs, bug_calls, bug_echo>>
ftvars == <<tpc, add_comment, found, found_k, bz_comments, bz_whiteboard, runs>>

vars == <<cvars, bvars, fbvars, ftvars>>


(***************************************************************************)
(* Values                                                                  *)
(***************************************************************************)
\* --attach not given: the option's default
NoAdvisory == "False"
\* the advisory given with --attach
AdvisoryId == "123456"

\* Strings are sequences of characters, characters are numbers; 0 is '-'.
\* the package (image) names: two builds of each name but the last
NumNames == (NumBuilds + 1) \div 2
Names == 1 .. NumNames
\* the k-th build Brew knows, as the (n, v, r) tuple of its name, version
\* and release
BuildTuple(k) == <<((k - 1) % NumNames) + 1, 1, ((k - 1) \div NumNames) + 1>>
\* "{}-{}-{}".format(meta[0], meta[1], meta[2])
FormatNvr(meta) == <<meta[1]>> \o <<0>> \o <<meta[2]>> \o <<0>> \o <<meta[3]>>
Tuples == {BuildTuple(k) : k \in 1 .. NumBuilds}
NVRS == {FormatNvr(t) : t \in Tuples}

\* a slot of a result list that no worker has filled
NoRecord == [nvr |-> <<>>, attached_to_open_erratum |-> FALSE]
NoTuple == <<>>

SeqToSet(s) == {s[i] : i \in DOMAIN s}
\* the lists that enumerate the set S, each element once
Orderings(S) == {s \in [1 .. Cardinality(S) -> S] : \A i, j \in DOMAIN s : s[i] = s[j] => i = j}
\* the lists over S of at most n elements
ListsUpTo(S, n) == UNION {[1 .. k -> S] : k \in 0 .. n}

EtIdle == [get_filtered_list |-> 0, get_erratum |-> 0, add_builds |-> 0,
           add_builds_arg |-> <<>>, attached |-> <<>>, raised |-> "none"]
\* shown, count, lines: the dry-run list; success: "Attached build(s)
\* successfully"; error: the error message; outcomes: per-build attachment
\* outcomes, which no statement of find_builds prints
EchoIdle == [shown |-> FALSE, count |-> 0, lines |-> <<>>, success |-> FALSE,
             error |-> "none", outcomes |-> <<>>]

BuildsIdle ==
    /\ pc = "idle"
    /\ builds = <<>>
    /\ kind = "rpm"
    /\ advisory = NoAdvisory
    /\ ncpu = 0
    /\ non_release = {}
    /\ tagC = {}
    /\ tagS = {}
    /\ initial_builds = <<>>
    /\ potential_builds = <<>>
    /\ results = <<>>
    /\ unshipped_builds = <<>>
    /\ build_count = 0
    /\ mapfn = "none"
    /\ tasks = <<>>
    /\ next = 1
    /\ worker = [w \in 1 .. MaxWorkers |-> 0]
    /\ completed = {}
    /\ fetches = <<>>
    /\ fetchError = "none"
    /\ et = EtIdle
    /\ echo = EchoIdle

\* the bugs Bugzilla knows
BugIds == 1 .. NumBugs
\* the --flag options tried: none, or bro_ok
FlagOptions == {<<>>, <<"bro_ok">>}

BugCallsIdle == [add_flags |-> 0, get_erratum |-> 0, add_bugs |-> 0]
BugEchoIdle == [would_have |-> FALSE, listed |-> <<>>, added |-> <<>>, failed |-> <<>>,
                error |-> "none"]

BugsIdle ==
    /\ bpc = "idle"
    /\ auto = FALSE
    /\ id = <<>>
    /\ flag = <<>>
    /\ bug_advisory = NoAdvisory
    /\ bug_ids = <<>>
    /\ bug_k = 1
    /\ bz_flags = [b \in BugIds |-> {}]
    /\ advisory_bugs = {}
    /\ bug_calls = BugCallsIdle
    /\ bug_echo = BugEchoIdle

TransitionsIdle ==
    /\ tpc = "idle"
    /\ add_comment = FALSE
    /\ found = <<>>
    /\ found_k = 1
    /\ bz_comments = [b \in BugIds |-> 0]
    /\ bz_whiteboard = [b \in BugIds |-> FALSE]
    /\ runs = 0

(***************************************************************************)
(* advisory:create, the release date                                       *)
(***************************************************************************)
Days == FirstDay .. (FirstDay + NumDays - 1)

\* int(release_date.strftime('%w')): the day of the week, Sunday = 0.
\* Day 0 (1970-01-01) was a Thursday.
DayOfWeek(d) == (d + 4) % 7

\* delta = day_of_week - 2
\* faulty variants of Delta: the sign reversed; the distance counted backwards
\* around the week
DeltaNegated(day_of_week) == Tuesday - day_of_week
DeltaModulo(day_of_week) == (day_of_week - Tuesday) % 7
Delta(day_of_week) == day_of_week - Tuesday

\* the adjustment of the release date to a Tuesday
AdjustToTuesday(d) ==
    IF DayOfWeek(d) # Tuesday THEN d - Delta(DayOfWeek(d)) ELSE d

OutcomesOfFindLatest == {"found", "none", "Unauthenticated", "Unauthorized", "ErrataToolError"}

CreateInit ==
    /\ cpc = "start"
    /\ date_given \in BOOLEAN
    /\ latest_date = 0
    /\ release_date = 0
    /\ adjusted = FALSE

CreateIdle ==
    /\ cpc = "idle"
    /\ date_given = FALSE
    /\ latest_date = 0
    /\ release_date = 0
    /\ adjusted = FALSE

\* --date given: release_date = datetime.datetime.strptime(date, YMD)
CreateUserDate ==
    /\ cpc = "start"
    /\ date_given
    /\ \E d \in Days : release_date' = d
    /\ cpc' = "dated"
    /\ UNCHANGED <<date_given, latest_date, adjusted, bvars, fbvars, ftvars>>

\* no --date: find_latest_erratum(kind, minor) and its failures
CreateFindLatest ==
    /\ cpc = "start"
    /\ ~date_given
    /\ \E out \in OutcomesOfFindLatest :
         IF out = "found"
         THEN /\ \E d \in Days : latest_date' = d
              /\ cpc' = "found"
         ELSE /\ latest_date' = latest_date
              /\ cpc' = "exit1"
    /\ UNCHANGED <<date_given, release_date, adjusted, bvars, fbvars, ftvars>>

\* release_date = latest_advisory.release_date + timedelta(days=21)
CreateAddInterval ==
    /\ cpc = "found"
    /\ release_date' = latest_date + ReleaseInterval
    /\ cpc' = "added"
    /\ UNCHANGED <<date_given, latest_date, adjusted, bvars, fbvars, ftvars>>

\* the Tuesday adjustment
CreateAdjust ==
    /\ cpc = "added"
    /\ release_date' = AdjustToTuesday(release_date)
    /\ adjusted' = (DayOfWeek(release_date) # Tuesday)
    /\ cpc' = "dated"
    /\ UNCHANGED <<date_given, latest_date, bvars, fbvars, ftvars>>

NextCreate ==
    \/ CreateUserDate
    \/ CreateFindLatest
    \/ CreateAddInterval
    \/ CreateAdjust

InitCreate == CreateInit /\ BuildsIdle /\ BugsIdle /\ TransitionsIdle

SpecCreate == InitCreate /\ [][NextCreate]_vars

(***************************************************************************)
(* advisory:find-builds                                                    *)
(***************************************************************************)
\* a < b for strings, character by character
StrLess(a, b) ==
    \E k \in 1 .. (Len(a) + 1) :
        /\ \A j \in 1 .. (k - 1) : j <= Len(b) /\ a[j] = b[j]
        /\ k <= Len(b)
        /\ (k <= Len(a) => a[k] < b[k])

\* the order of two build records: by nvr
BuildLess(a, b) == StrLess(a.nvr, b.nvr)

\* sorted(): x goes behind every element that is not greater (stable)
RECURSIVE InsertSorted(_, _)
InsertSorted(x, s) ==
    IF s = <<>> THEN <<x>>
    ELSE IF BuildLess(x, Head(s)) THEN <<x>> \o s
    ELSE <<Head(s)>> \o InsertSorted(x, Tail(s))

RECURSIVE sorted(_)
sorted(l) ==
    IF l = <<>> THEN <<>>
    ELSE InsertSorted(l[Len(l)], sorted(SubSeq(l, 1, Len(l) - 1)))

\* brew.find_unshipped_build_candidates: the builds carrying the candidate
\* tag that do not carry the shipped tag
find_unshipped_build_candidates(C, S) == C \ S

\* [i for i in potential_builds if i[0] not in non_release]
\* (faulty variant: the exclusion list is not applied)
NonReleaseKeepsAll(pb, nr) == pb
NonReleaseFilter(pb, nr) ==
    LET keep(i) == i[1] \notin nr IN SelectSeq(pb, keep)

\* [b for b in results if not b.attached_to_open_erratum]
IsNotAttached(b) == ~b.attached_to_open_erratum
\* (faulty variant: the condition without its "not")
IsAttached(b) == b.attached_to_open_erratum
KeepAttached(rs) == SelectSeq(rs, IsAttached)
\* (faulty variant: the attached records are removed from the list while
\* it is iterated, which skips the record behind each one removed)
RECURSIVE RemoveWhileIterating(_)
RemoveWhileIterating(rs) ==
    IF rs = <<>> THEN <<>>
    ELSE IF IsAttached(Head(rs))
         THEN (IF Len(rs) >= 2
               THEN <<rs[2]>> \o RemoveWhileIterating(Tail(Tail(rs)))
               ELSE <<>>)
         ELSE <<Head(rs)>> \o RemoveWhileIterating(Tail(rs))
NotAttached(rs) == SelectSeq(rs, IsNotAttached)

\* if advisory is not False
\* (faulty variant: the attach branch taken whatever the option)
AttachAlways == TRUE
AttachRequested == advisory # NoAdvisory

\* for b in sorted(unshipped_builds): click.echo(" " + b.nvr)
NvrsOf(l) == [i \in DOMAIN l |-> l[i].nvr]
\* (faulty variant: the list printed without sorted())
ReportUnsorted(l) == NvrsOf(l)
ReportLines(l) == NvrsOf(sorted(l))

\* where the manual loop goes after get_brew_build ended with outcome o
\* for the last = TRUE / not last build: the except clause catches
\* BrewBuildException only
\* (faulty variant: the failure of a fetch is swallowed)
ManualIgnoresFailure(o, last) ==
    IF last THEN "resolved" ELSE "manual"
\* (faulty variant: a fetch that was refused for authentication is tried
\* again)
ManualRetriesUnauthenticated(o, last) ==
    IF o = "ok" THEN (IF last THEN "resolved" ELSE "manual")
    ELSE IF o = "BrewBuildException" THEN "exit1"
    ELSE IF o = "Unauthenticated" THEN "manual"
    ELSE "crashed"
ManualAfter(o, last) ==
    IF o = "ok" THEN (IF last THEN "resolved" ELSE "manual")
    ELSE IF o = "BrewBuildException" THEN "exit1"
    ELSE "crashed"

\* the list comprehension is over every element of builds
\* (faulty variant: the last element is left out)
ManualStopsEarly(n, bs) == n >= Len(bs) - 1
ManualLast(n, bs) == n = Len(bs)

\* pool.map returns when every task has returned its value
\* (faulty variant: it returns while a task is still outstanding)
MapReadyEarly(n, done) == Cardinality(done) >= n - 1
\* (faulty variant: it returns when every task was handed to a worker)
MapReadyAllDispatched(n, done) == next > n
MapReady(n, done) == done = 1 .. n

\* how the attach step ends when add_builds raised r ("none": it returned)
\* (variant that inspects the per-build outcomes, which the code does not)
AttachEndChecked(r, attached) ==
    IF r = "none"
    THEN (IF \E i \in DOMAIN attached : ~attached[i] THEN "exit1" ELSE "done")
    ELSE "exit1"
AttachEnd(r, attached) ==
    IF r = "none" THEN "done" ELSE "exit1"

\* pool.map puts the value of the task at index i of the input at index i of
\* the list it returns (done: the tasks completed before)
\* (faulty variant: the values are collected in the order of completion)
ResultSlotByCompletion(i, done) == Cardinality(done) + 1
ResultSlot(i, done) == i

\* if len(builds) > 0: ... elif kind == 'image': ... elif kind == 'rpm': ...
\* (faulty variant: the --build options do not switch the discovery off)
ModeIgnoresBuilds(bs, k) == k
ModeOf(bs, k) == IF Len(bs) > 0 THEN "manual" ELSE k

\* image mode: unshipped_builds = pool.map(...), every record is kept
\* (faulty variant: the attached records are removed as in rpm mode)
ImageFinalUnattached(rs) == NotAttached(rs)
ImageFinal(rs) == rs

\* what each mode does to the enriched records to get the final list
ViabilityFilter(m, rs) ==
    IF m = "rpm" THEN NotAttached(rs)
    ELSE IF m = "image" THEN ImageFinal(rs)
    ELSE rs

\* the task queue of the pool: a task handed to a worker leaves the queue
\* (faulty variant: the task stays at the head of the queue)
NextTaskAgain(n) == n
NextTask(n) == n + 1

FetchOutcomes == {"ok", "BrewBuildException", "Unauthenticated", "TransportError"}

MapPcs == {"image_map1", "image_map2", "rpm_map"}
\* the worker threads run until the process ends
PoolPcs == MapPcs \cup {"raising"}

FindBuildsInit ==
    /\ pc = "start"
    /\ builds \in ListsUpTo(NVRS, MaxBuilds)
    /\ kind \in {"rpm", "image"}
    /\ advisory \in {NoAdvisory, AdvisoryId}
    /\ ncpu = 0
    \* the list is read in automatic image mode only: there every list is
    \* tried, in the other modes the empty list and the list of every name
    /\ non_release \in (IF builds = <<>> /\ kind = "image" THEN SUBSET Names ELSE {{}, Names})
    /\ tagC = {}
    /\ tagS = {}
    /\ initial_builds = <<>>
    /\ potential_builds = <<>>
    /\ results = <<>>
    /\ unshipped_builds = <<>>
    /\ build_count = 0
    /\ mapfn = "none"
    /\ tasks = <<>>
    /\ next = 1
    /\ worker = [w \in 1 .. MaxWorkers |-> 0]
    /\ completed = {}
    /\ fetches = <<>>
    /\ fetchError = "none"
    /\ et = EtIdle
    /\ echo = EchoIdle

\* pool = ThreadPool(cpu_count()); pool.map(fn, ts) dispatched
\* (cpu_count() gives the same number each time it is called)
StartPool(fn, ts) ==
    /\ IF ncpu = 0 THEN ncpu' \in 1 .. MaxWorkers ELSE ncpu' = ncpu
    /\ mapfn' = fn
    /\ tasks' = ts
    /\ next' = 1
    /\ worker' = [w \in 1 .. MaxWorkers |-> 0]
    /\ completed' = {}
    /\ fetches' = [i \in 1 .. Len(ts) |-> 0]
    /\ fetchError' = "none"

\* "Test authentication": get_filtered_list, then the choice of the mode
AuthProbe ==
    /\ pc = "start"
    /\ et' = [et EXCEPT !.get_filtered_list = @ + 1]
    /\ \E o \in {"ok", "Unauthenticated", "ErrataToolError"} :
         \/ /\ o = "ok"
            /\ pc' = ModeOf(builds, kind)
            /\ echo' = echo
         \/ /\ o = "Unauthenticated"
            /\ pc' = "exit1"
            /\ echo' = [echo EXCEPT !.error = o]
         \/ /\ o = "ErrataToolError"
            /\ pc' = "crashed"
            /\ echo' = echo
    /\ UNCHANGED <<optvars, brewvars, localvars, poolvars, cvars, fbvars, ftvars>>

\* one get_brew_build of the list comprehension over builds
ManualFetch ==
    /\ pc = "manual"
    /\ \E o \in FetchOutcomes, f \in BOOLEAN :
         LET n == Len(results) + 1
             last == ManualLast(n, builds)
             rs == IF o = "ok"
                   THEN Append(results, [nvr |-> builds[n], attached_to_open_erratum |-> f])
                   ELSE results
         IN /\ (o # "ok" => ~f)
            /\ results' = rs
            /\ fetchError' = IF o = "ok" THEN fetchError ELSE o
            /\ pc' = ManualAfter(o, last)
            /\ IF pc' = "resolved"
               THEN /\ unshipped_builds' = rs
                    /\ build_count' = Len(rs)
               ELSE UNCHANGED <<unshipped_builds, build_count>>
            /\ echo' = IF o = "BrewBuildException" /\ pc' = "exit1"
                       THEN [echo EXCEPT !.error = o] ELSE echo
    /\ UNCHANGED <<optvars, brewvars, initial_builds, potential_builds, ncpu, mapfn, tasks, next, worker, completed, fetches, et, cvars, fbvars, ftvars>>

\* initial_builds = runtime.image_metas(), and the first pool.map
ImageMetas ==
    /\ pc = "image"
    /\ \E Imgs \in SUBSET Names : \E order \in Orderings(Imgs) :
         /\ initial_builds' = order
         /\ potential_builds' = [i \in 1 .. Len(order) |-> NoTuple]
         /\ StartPool("get_latest_build_info", order)
    /\ pc' = "image_map1"
    /\ UNCHANGED <<optvars, brewvars, results, unshipped_builds, build_count, et, echo, cvars, fbvars, ftvars>>

\* find_unshipped_build_candidates, and the pool.map over its result
RpmDiscover ==
    /\ pc = "rpm"
    /\ \E o \in {"ok", "BrewError"} :
         \/ /\ o = "ok"
            /\ \E C \in SUBSET NVRS, S \in SUBSET NVRS :
                 /\ tagC' = C
                 /\ tagS' = S
                 /\ \E order \in Orderings(find_unshipped_build_candidates(C, S)) :
                      /\ StartPool("get_brew_build", order)
                      /\ results' = [i \in 1 .. Len(order) |-> NoRecord]
            /\ pc' = "rpm_map"
         \/ /\ o = "BrewError"
            /\ pc' = "crashed"
            /\ UNCHANGED <<brewvars, results, poolvars>>
    /\ UNCHANGED <<optvars, initial_builds, potential_builds, unshipped_builds, build_count, et, echo, cvars, fbvars, ftvars>>

\* a worker thread takes the next task of the queue (the idle threads are
\* interchangeable: the one of lowest index takes it)
WorkerTake(w) ==
    /\ pc \in PoolPcs
    /\ w <= ncpu
    /\ worker[w] = 0
    /\ \A v \in 1 .. (w - 1) : worker[v] # 0
    /\ next <= Len(tasks)
    /\ worker' = [worker EXCEPT ![w] = next]
    /\ next' = NextTask(next)
    /\ UNCHANGED <<pc, optvars, brewvars, localvars, ncpu, mapfn, tasks, completed, fetches, fetchError, et, echo, cvars, fbvars, ftvars>>

\* a worker thread runs build.get_latest_build_info() for its task
WorkerLatest(w) ==
    /\ pc \in PoolPcs
    /\ mapfn = "get_latest_build_info"
    /\ worker[w] # 0
    /\ LET i == worker[w] IN
       /\ fetches' = [fetches EXCEPT ![i] = @ + 1]
       /\ worker' = [worker EXCEPT ![w] = 0]
       /\ \E o \in {"ok", "BrewError"} :
            \/ /\ o = "ok"
               /\ \E t \in Tuples, shipped \in BOOLEAN :
                    /\ t[1] = tasks[i]
                    /\ potential_builds' = [potential_builds EXCEPT ![i] = t]
                    /\ tagC' = tagC \cup {FormatNvr(t)}
                    /\ tagS' = IF shipped THEN tagS \cup {FormatNvr(t)} ELSE tagS
               /\ completed' = completed \cup {i}
               /\ fetchError' = fetchError
            \/ /\ o = "BrewError"
               /\ fetchError' = IF fetchError = "none" THEN o ELSE fetchError
               /\ UNCHANGED <<brewvars, potential_builds, completed>>
    /\ UNCHANGED <<pc, optvars, initial_builds, results, unshipped_builds, build_count, ncpu, mapfn, tasks, next, et, echo, cvars, fbvars, ftvars>>

\* a worker thread runs get_brew_build for its task
WorkerBrew(w) ==
    /\ pc \in PoolPcs
    /\ mapfn = "get_brew_build"
    /\ worker[w] # 0
    /\ LET i == worker[w] IN
       /\ fetches' = [fetches EXCEPT ![i] = @ + 1]
       /\ worker' = [worker EXCEPT ![w] = 0]
       /\ \E o \in FetchOutcomes :
            \/ /\ o = "ok"
               /\ \E f \in BOOLEAN :
                    results' = [results EXCEPT ![ResultSlot(i, completed)] =
                                    [nvr |-> tasks[i], attached_to_open_erratum |-> f]]
               /\ completed' = completed \cup {i}
               /\ fetchError' = fetchError
            \/ /\ o # "ok"
               /\ fetchError' = IF fetchError = "none" THEN o ELSE fetchError
               /\ UNCHANGED <<results, completed>>
    /\ UNCHANGED <<pc, optvars, brewvars, initial_builds, potential_builds, unshipped_builds, build_count, ncpu, mapfn, tasks, next, et, echo, cvars, fbvars, ftvars>>

\* the first pool.map of image mode returns: close, join, the non_release
\* filter, and the second pool.map
ImageLatestDone ==
    /\ pc = "image_map1"
    /\ fetchError = "none"
    /\ MapReady(Len(tasks), completed)
    /\ LET pb == NonReleaseFilter(potential_builds, non_release) IN
       /\ potential_builds' = pb
       /\ StartPool("get_brew_build", [i \in 1 .. Len(pb) |-> FormatNvr(pb[i])])
       /\ results' = [i \in 1 .. Len(pb) |-> NoRecord]
    /\ pc' = "image_map2"
    /\ UNCHANGED <<optvars, brewvars, initial_builds, unshipped_builds, build_count, et, echo, cvars, fbvars, ftvars>>

\* the second pool.map of image mode returns: close, join, build_count
ImageBrewDone ==
    /\ pc = "image_map2"
    /\ fetchError = "none"
    /\ MapReady(Len(tasks), completed)
    /\ unshipped_builds' = ImageFinal(results)
    /\ build_count' = Len(ImageFinal(results))
    /\ pc' = "resolved"
    /\ UNCHANGED <<optvars, brewvars, initial_builds, potential_builds, results, poolvars, et, echo, cvars, fbvars, ftvars>>

\* the pool.map of rpm mode returns: close, join, the filter, build_count
RpmBrewDone ==
    /\ pc = "rpm_map"
    /\ fetchError = "none"
    /\ MapReady(Len(tasks), completed)
    /\ unshipped_builds' = NotAttached(results)
    /\ build_count' = Len(NotAttached(results))
    /\ pc' = "resolved"
    /\ UNCHANGED <<optvars, brewvars, initial_builds, potential_builds, results, poolvars, et, echo, cvars, fbvars, ftvars>>

\* pool.map raises the first exception of a task in the main thread, which
\* nothing catches
MapRaise ==
    /\ pc \in MapPcs
    /\ fetchError # "none"
    /\ pc' = "raising"
    /\ UNCHANGED <<optvars, brewvars, localvars, poolvars, et, echo, cvars, fbvars, ftvars>>

\* the process ends with the traceback
ProcessExit ==
    /\ pc = "raising"
    /\ pc' = "crashed"
    /\ UNCHANGED <<optvars, brewvars, localvars, poolvars, et, echo, cvars, fbvars, ftvars>>

\* --attach: erratum = get_erratum(advisory)
GetErratum ==
    /\ pc = "resolved"
    /\ AttachRequested
    /\ et' = [et EXCEPT !.get_erratum = @ + 1]
    /\ \E o \in {"ok", "Unauthenticated", "ErrataToolError"} :
         \/ /\ o = "ok"
            /\ pc' = "add"
            /\ echo' = echo
         \/ /\ o = "Unauthenticated"
            /\ pc' = "exit1"
            /\ echo' = [echo EXCEPT !.error = o]
         \/ /\ o = "ErrataToolError"
            /\ pc' = "crashed"
            /\ echo' = echo
    /\ UNCHANGED <<optvars, brewvars, localvars, poolvars, cvars, fbvars, ftvars>>

\* erratum.add_builds(unshipped_builds): one call for the whole list; the
\* service attaches each build or not, and the call returns or raises
AddBuilds ==
    /\ pc = "add"
    /\ \E att \in [1 .. Len(unshipped_builds) -> BOOLEAN],
          r \in {"none", "Unauthenticated", "BrewBuildException"} :
         /\ et' = [et EXCEPT !.add_builds = @ + 1,
                             !.add_builds_arg = unshipped_builds,
                             !.attached = att,
                             !.raised = r]
         /\ pc' = AttachEnd(r, att)
         /\ echo' = IF r = "none" THEN [echo EXCEPT !.success = TRUE]
                    ELSE [echo EXCEPT !.error = r]
    /\ UNCHANGED <<optvars, brewvars, localvars, poolvars, cvars, fbvars, ftvars>>

\* no --attach: the builds are listed
Report ==
    /\ pc = "resolved"
    /\ ~AttachRequested
    /\ echo' = [echo EXCEPT !.shown = TRUE,
                            !.count = build_count,
                            !.lines = ReportLines(unshipped_builds)]
    /\ pc' = "done"
    /\ UNCHANGED <<optvars, brewvars, localvars, poolvars, et, cvars, fbvars, ftvars>>

Init == FindBuildsInit /\ CreateIdle /\ BugsIdle /\ TransitionsIdle

Next ==
    \/ AuthProbe
    \/ ManualFetch
    \/ ImageMetas
    \/ RpmDiscover
    \/ \E w \in 1 .. MaxWorkers : WorkerTake(w)
    \/ \E w \in 1 .. MaxWorkers : WorkerLatest(w)
    \/ \E w \in 1 .. MaxWorkers : WorkerBrew(w)
    \/ ImageLatestDone
    \/ ImageBrewDone
    \/ RpmBrewDone
    \/ MapRaise
    \/ ProcessExit
    \/ GetErratum
    \/ AddBuilds
    \/ Report

Spec == Init /\ [][Next]_vars

(***************************************************************************)
(* advisory:find-bugs                                                      *)
(***************************************************************************)
\* if advisory is not False
\* (faulty variant: the add branch taken whatever the option)
BugsAddAlways == TRUE
BugsAddRequested == bug_advisory # NoAdvisory

FindBugsInit ==
    /\ bpc = "start"
    /\ auto \in BOOLEAN
    /\ id \in ListsUpTo(BugIds, MaxIds)
    /\ flag \in FlagOptions
    /\ bug_advisory \in {NoAdvisory, AdvisoryId}
    /\ bug_ids = <<>>
    /\ bug_k = 1
    /\ bz_flags = [b \in BugIds |-> {}]
    /\ advisory_bugs = {}
    /\ bug_calls = BugCallsIdle
    /\ bug_echo = BugEchoIdle

\* --auto and --id exclude each other, and one of them is required
BugsCheckOptions ==
    /\ bpc = "start"
    /\ bpc' = IF auto /\ Len(id) > 0 THEN "usage"
              ELSE IF ~auto /\ Len(id) = 0 THEN "usage"
              ELSE "search"
    /\ UNCHANGED <<auto, id, flag, bug_advisory, bug_ids, bug_k, bz_flags, advisory_bugs, bug_calls, bug_echo, cvars, bvars, ftvars>>

\* bug_ids = search_for_bugs(target_releases), or one Bug per --id
BugsSearch ==
    /\ bpc = "search"
    /\ IF auto
       THEN \E o \in {"ok", "BugzillaError"} :
              \/ /\ o = "ok"
                 /\ \E S \in SUBSET BugIds : \E order \in Orderings(S) : bug_ids' = order
                 /\ bpc' = "branch"
              \/ /\ o = "BugzillaError"
                 /\ bug_ids' = bug_ids
                 /\ bpc' = "crashed"
       ELSE /\ bug_ids' = id
            /\ bpc' = "branch"
    /\ UNCHANGED <<auto, id, flag, bug_advisory, bug_k, bz_flags, advisory_bugs, bug_calls, bug_echo, cvars, bvars, ftvars>>

\* --add: advs = get_erratum(advisory)
BugsGetErratum ==
    /\ bpc = "branch"
    /\ BugsAddRequested
    /\ bug_calls' = [bug_calls EXCEPT !.get_erratum = @ + 1]
    /\ \E o \in {"ok", "Unauthenticated", "NotFound"} :
         \/ /\ o = "ok"
            /\ bpc' = IF Len(flag) > 0 /\ Len(bug_ids) > 0 THEN "flags" ELSE "add"
            /\ bug_echo' = bug_echo
         \/ /\ o # "ok"
            /\ bpc' = "exit1"
            /\ bug_echo' = [bug_echo EXCEPT !.error = o]
    /\ UNCHANGED <<auto, id, flag, bug_advisory, bug_ids, bug_k, bz_flags, advisory_bugs, cvars, bvars, ftvars>>

\* for bug in bug_ids: bug.add_flags(flag), one bug per step
BugsAddFlags ==
    /\ bpc = "flags"
    /\ bug_calls' = [bug_calls EXCEPT !.add_flags = @ + 1]
    /\ \E o \in {"ok", "BugzillaError"} :
         \/ /\ o = "ok"
            /\ bz_flags' = [bz_flags EXCEPT ![bug_ids[bug_k]] = @ \cup SeqToSet(flag)]
            /\ bug_k' = bug_k + 1
            /\ bpc' = IF bug_k = Len(bug_ids) THEN "add" ELSE "flags"
         \/ /\ o = "BugzillaError"
            /\ bpc' = "crashed"
            /\ UNCHANGED <<bz_flags, bug_k>>
    /\ UNCHANGED <<auto, id, flag, bug_advisory, bug_ids, advisory_bugs, bug_echo, cvars, bvars, ftvars>>

\* for res, bug in advs.add_bugs(bug_ids): 201 is "Added bug", anything
\* else "Failed to add bug"
BugsAddBugs ==
    /\ bpc = "add"
    /\ bug_calls' = [bug_calls EXCEPT !.add_bugs = @ + 1]
    /\ \E created \in [1 .. Len(bug_ids) -> BOOLEAN] :
         LET isAdded(i) == created[i]
             isFailed(i) == ~created[i]
             idx == [i \in 1 .. Len(bug_ids) |-> i]
         IN /\ advisory_bugs' = advisory_bugs \cup {bug_ids[i] : i \in {j \in DOMAIN bug_ids : created[j]}}
            /\ bug_echo' = [bug_echo EXCEPT
                    !.added = [i \in DOMAIN SelectSeq(idx, isAdded) |-> bug_ids[SelectSeq(idx, isAdded)[i]]],
                    !.failed = [i \in DOMAIN SelectSeq(idx, isFailed) |-> bug_ids[SelectSeq(idx, isFailed)[i]]]]
    /\ bpc' = "done"
    /\ UNCHANGED <<auto, id, flag, bug_advisory, bug_ids, bug_k, bz_flags, cvars, bvars, ftvars>>

\* no --add: "Would have added {n} bugs: ..."
BugsReport ==
    /\ bpc = "branch"
    /\ ~BugsAddRequested
    /\ bug_echo' = [bug_echo EXCEPT !.would_have = TRUE, !.listed = bug_ids]
    /\ bpc' = "done"
    /\ UNCHANGED <<auto, id, flag, bug_advisory, bug_ids, bug_k, bz_flags, advisory_bugs, bug_calls, cvars, bvars, ftvars>>

InitBugs == FindBugsInit /\ CreateIdle /\ BuildsIdle /\ TransitionsIdle

NextBugs ==
    \/ BugsCheckOptions
    \/ BugsSearch
    \/ BugsGetErratum
    \/ BugsAddFlags
    \/ BugsAddBugs
    \/ BugsReport

SpecBugs == InitBugs /\ [][NextBugs]_vars

(***************************************************************************)
(* bugzilla:find-transitions, run several times over the same Bugzilla     *)
(***************************************************************************)
\* where the loop over bug_ids goes after the bug at index k
AfterBug(k, l) == IF k = Len(l) THEN "done" ELSE "check"

FindTransitionsInit ==
    /\ tpc = "start"
    /\ add_comment \in BOOLEAN
    /\ found = <<>>
    /\ found_k = 1
    /\ bz_comments = [b \in BugIds |-> 0]
    /\ bz_whiteboard = [b \in BugIds |-> FALSE]
    /\ runs = 1

\* bug_ids = search_for_bug_transitions(...), and if(add_comment)
TransitionsSearch ==
    /\ tpc = "start"
    /\ \E o \in {"ok", "BugzillaError"} :
         \/ /\ o = "ok"
            /\ \E S \in SUBSET BugIds : \E order \in Orderings(S) : found' = order
            /\ tpc' = IF add_comment /\ Len(found') > 0 THEN "check" ELSE "done"
         \/ /\ o = "BugzillaError"
            /\ found' = found
            /\ tpc' = "crashed"
    /\ UNCHANGED <<add_comment, found_k, bz_comments, bz_whiteboard, runs, cvars, bvars, fbvars>>

\* if not bug.has_whiteboard_value('ocp_art_invalid_transition'), and the
\* else branch: 'Skipping ...'
TransitionsCheck ==
    /\ tpc = "check"
    /\ IF ~bz_whiteboard[found[found_k]]
       THEN /\ tpc' = "comment"
            /\ found_k' = found_k
       ELSE /\ tpc' = AfterBug(found_k, found)
            /\ found_k' = found_k + 1
    /\ UNCHANGED <<add_comment, found, bz_comments, bz_whiteboard, runs, cvars, bvars, fbvars>>

\* bug.add_comment(bugzilla_invalid_transition_comment, is_private=True)
TransitionsAddComment ==
    /\ tpc = "comment"
    /\ \E o \in {"ok", "BugzillaError"} :
         \/ /\ o = "ok"
            /\ bz_comments' = [bz_comments EXCEPT ![found[found_k]] = @ + 1]
            /\ tpc' = "whiteboard"
         \/ /\ o = "BugzillaError"
            /\ bz_comments' = bz_comments
            /\ tpc' = "crashed"
    /\ UNCHANGED <<add_comment, found, found_k, bz_whiteboard, runs, cvars, bvars, fbvars>>

\* bug.add_whiteboard_value('ocp_art_invalid_transition')
TransitionsAddWhiteboard ==
    /\ tpc = "whiteboard"
    /\ \E o \in {"ok", "BugzillaError"} :
         \/ /\ o = "ok"
            /\ bz_whiteboard' = [bz_whiteboard EXCEPT ![found[found_k]] = TRUE]
            /\ tpc' = AfterBug(found_k, found)
            /\ found_k' = found_k + 1
         \/ /\ o = "BugzillaError"
            /\ tpc' = "crashed"
            /\ UNCHANGED <<bz_whiteboard, found_k>>
    /\ UNCHANGED <<add_comment, found, bz_comments, runs, cvars, bvars, fbvars>>

\* the command is run again, after the run before it has ended
TransitionsRunAgain ==
    /\ tpc \in {"done", "crashed"}
    /\ runs < MaxRuns
    /\ runs' = runs + 1
    /\ tpc' = "start"
    /\ add_comment' \in BOOLEAN
    /\ found' = <<>>
    /\ found_k' = 1
    /\ UNCHANGED <<bz_comments, bz_whiteboard, cvars, bvars, fbvars>>

InitTransitions == FindTransitionsInit /\ CreateIdle /\ BuildsIdle /\ BugsIdle

NextTransitions ==
    \/ TransitionsSearch
    \/ TransitionsCheck
    \/ TransitionsAddComment
    \/ TransitionsAddWhiteboard
    \/ TransitionsRunAgain

SpecTransitions == InitTransitions /\ [][NextTransitions]_vars

(***************************************************************************)
(* Claims about advisory:find-builds                                       *)
(***************************************************************************)
\* pool.map over get_brew_build has returned its list to find_builds
PoolReturned == mapfn = "get_brew_build" /\ fetchError = "none" /\ pc \notin MapPcs
\* the first pool.map of image mode is about to return its list
LatestReturning ==
    /\ pc = "image_map1"
    /\ fetchError = "none"
    /\ completed = 1 .. Len(tasks)
\* no element of the list twice
NoDuplicates(l) == \A i, j \in DOMAIN l : l[i] = l[j] => i = j
\* a list of nvrs in ascending order
Ascending(l) == \A i, j \in DOMAIN l : i < j => ~StrLess(l[j], l[i])
\* how often x is in the list
Count(x, l) == Cardinality({i \in DOMAIN l : l[i] = x})
SamePermutation(a, b) ==
    /\ Len(a) = Len(b)
    /\ \A i \in DOMAIN a : Count(a[i], a) = Count(a[i], b)

\* C1: in automatic mode the candidates found are exactly the builds
\* carrying the candidate tag and not the shipped tag, each once (rpm: the
\* list given to the enrichment; image: the builds get_latest_build_info
\* returned, before the non_release filter).
C1_DiscoveryIsDifference ==
    /\ (pc = "rpm_map" =>
            /\ SeqToSet(tasks) = tagC \ tagS
            /\ NoDuplicates(tasks))
    /\ (LatestReturning =>
            /\ {FormatNvr(potential_builds[i]) : i \in DOMAIN potential_builds} = tagC \ tagS
            /\ NoDuplicates(potential_builds))

\* C2: when every fetch succeeded, the enrichment returns one record per
\* candidate, in every position the record of that candidate, and every
\* candidate was fetched exactly once, whatever the pool size and the
\* interleaving of the workers.
C2_OneRecordPerCandidate ==
    PoolReturned =>
        /\ Len(results) = Len(tasks)
        /\ \A i \in DOMAIN tasks :
             /\ results[i] # NoRecord
             /\ results[i].nvr = tasks[i]
             /\ fetches[i] = 1

\* C2 witness: three candidates went through a pool of two workers.
C2_Witness == PoolReturned /\ Len(tasks) = 3 /\ ncpu = 2

\* C3 as stated: the final list is in ascending nvr order on both exits, the
\* list handed to add_builds and the list reported in dry run.
C3_SortedOnBothExits ==
    /\ (echo.shown => Ascending(echo.lines))
    /\ (et.add_builds > 0 => Ascending(NvrsOf(et.add_builds_arg)))

\* C3 amended: the list reported in dry run is the final list in ascending
\* nvr order, in every mode; the list handed to add_builds is the final list
\* as enrichment left it, unsorted.
C3_ReportSortedAttachAsIs ==
    /\ (echo.shown =>
            /\ Ascending(echo.lines)
            /\ SamePermutation(echo.lines, NvrsOf(unshipped_builds)))
    /\ (et.add_builds > 0 => et.add_builds_arg = unshipped_builds)

\* C3 witness: a dry run reported a list that enrichment had left in another
\* order.
C3_Witness ==
    /\ echo.shown
    /\ Len(echo.lines) >= 2
    /\ echo.lines # NvrsOf(unshipped_builds)

\* C4 as stated: no two records of the final list have the same nvr.
C4_NoTwoRecordsSameNvr == NoDuplicates(NvrsOf(unshipped_builds))

\* C4 amended: nothing is deduplicated. In manual mode the final list has
\* one record per --build given, in the order given, a build given twice
\* twice, and the count reported is the number of --build options; in
\* automatic mode the candidates are distinct and so are the records.
C4_OneRecordPerBuildOption ==
    /\ (Len(builds) > 0 /\ pc \in {"resolved", "add", "done"} =>
            /\ NvrsOf(unshipped_builds) = builds
            /\ build_count = Len(builds)
            /\ (echo.shown => echo.count = Len(builds) /\ Len(echo.lines) = Len(builds)))
    /\ (Len(builds) = 0 => NoDuplicates(NvrsOf(unshipped_builds)))

\* C4 witness: the same build was given twice and the dry run reported two
\* builds.
C4_Witness ==
    /\ Len(builds) = 2
    /\ builds[1] = builds[2]
    /\ echo.shown
    /\ echo.count = 2
    /\ Len(echo.lines) = 2

\* the enrichment of automatic rpm mode has returned
RpmEnriched == Len(builds) = 0 /\ kind = "rpm" /\ PoolReturned /\ pc # "rpm"

\* C5: in automatic rpm mode the final list holds no record attached to an
\* open advisory and holds every enriched record that is not attached.
C5_RpmKeepsExactlyUnattached ==
    RpmEnriched =>
        /\ \A i \in DOMAIN unshipped_builds : ~unshipped_builds[i].attached_to_open_erratum
        /\ \A i \in DOMAIN results :
             ~results[i].attached_to_open_erratum =>
                 Count(results[i], unshipped_builds) = Count(results[i], results)
        /\ Len(unshipped_builds) =
             Cardinality({i \in DOMAIN results : ~results[i].attached_to_open_erratum})

\* C5 witness: of the enriched records one was attached and one was not.
C5_Witness ==
    /\ RpmEnriched
    /\ \E i, j \in DOMAIN results :
         /\ results[i].attached_to_open_erratum
         /\ ~results[j].attached_to_open_erratum

\* C6: without --attach the advisory is never fetched, add_builds is never
\* called and nothing is attached.
C6_DryRunTouchesNoAdvisory ==
    advisory = NoAdvisory =>
        /\ et.get_erratum = 0
        /\ et.add_builds = 0
        /\ et.attached = <<>>

\* C6 witness: a dry run ended with builds reported.
C6_Witness ==
    /\ advisory = NoAdvisory
    /\ pc = "done"
    /\ echo.shown
    /\ Len(echo.lines) > 0

\* the service attached some builds of the list and failed on others
PartialAttachment ==
    /\ et.add_builds > 0
    /\ \E i \in DOMAIN et.attached : et.attached[i]
    /\ \E i \in DOMAIN et.attached : ~et.attached[i]

\* C7 as stated: after a partial attachment the run reports each build as
\* attached or failed and ends with a failure indication.
C7_PartialFailureReported ==
    PartialAttachment =>
        /\ pc = "exit1"
        /\ ~echo.success
        /\ echo.outcomes = et.attached

\* C7 amended: the final list goes to the advisory in one add_builds call,
\* whose per-build outcome is neither inspected nor reported: the run ends
\* normally with the success message exactly when the call returned, and
\* with one error message and exit status 1 exactly when it raised.
C7_OneCallNoPerBuildReport ==
    et.add_builds > 0 =>
        /\ et.add_builds = 1
        /\ et.add_builds_arg = unshipped_builds
        /\ Len(et.attached) = Len(unshipped_builds)
        /\ echo.outcomes = <<>>
        /\ (et.raised = "none" => pc = "done" /\ echo.success /\ echo.error = "none")
        /\ (et.raised # "none" => pc = "exit1" /\ ~echo.success /\ echo.error = et.raised)

\* C7 witness: of three builds the service attached two and failed on one,
\* the call returned and the run ended normally with the success message.
C7_Witness ==
    /\ PartialAttachment
    /\ Len(et.attached) = 3
    /\ Cardinality({i \in DOMAIN et.attached : et.attached[i]}) = 2
    /\ pc = "done"
    /\ echo.success

\* C8: once the metadata fetch of a candidate has failed, the run ends in
\* failure: no list of records is passed on, the advisory is not fetched,
\* nothing is attached and nothing is reported.
C8_FetchFailureIsFatal ==
    fetchError # "none" =>
        /\ pc \in MapPcs \cup {"raising", "crashed", "exit1"}
        /\ unshipped_builds = <<>>
        /\ et.get_erratum = 0
        /\ et.add_builds = 0
        /\ ~echo.shown
        /\ ~echo.success

\* C8 witness: one fetch failed, every other candidate was enriched, and the
\* run has ended with the failure.
C8_Witness ==
    /\ fetchError # "none"
    /\ mapfn = "get_brew_build"
    /\ Len(tasks) >= 2
    /\ Cardinality(completed) = Len(tasks) - 1
    /\ pc = "crashed"

\* C11 as stated: the list the enrichment returns follows the order in which
\* the workers complete: the record of the k-th fetch to complete is the
\* k-th element of the list.
C11_CompletionOrder ==
    [][(pc \in PoolPcs /\ mapfn = "get_brew_build") =>
          \A i \in completed' \ completed :
              results'[Cardinality(completed')].nvr = tasks[i]]_vars

\* C11 amended: the list the enrichment returns follows the order of the
\* input: at every moment the record of a completed candidate is at the
\* index of that candidate, the other indices are still empty, and the
\* first pool.map of image mode places its tuples the same way.
C11_InputOrder ==
    /\ (mapfn = "get_brew_build" =>
            /\ Len(results) = Len(tasks)
            /\ \A i \in DOMAIN tasks :
                 IF i \in completed
                 THEN results[i] # NoRecord /\ results[i].nvr = tasks[i]
                 ELSE results[i] = NoRecord)
    /\ (mapfn = "get_latest_build_info" /\ pc \in PoolPcs =>
            /\ Len(potential_builds) = Len(tasks)
            /\ \A i \in DOMAIN tasks :
                 IF i \in completed
                 THEN potential_builds[i] # NoTuple /\ potential_builds[i][1] = tasks[i]
                 ELSE potential_builds[i] = NoTuple)

\* C11 witness: of three candidates the second and the third completed
\* before the first, and their records are at the second and third index.
C11_Witness ==
    /\ mapfn = "get_brew_build"
    /\ pc \in MapPcs
    /\ Len(tasks) = 3
    /\ completed = {2, 3}
    /\ results[1] = NoRecord
    /\ results[2].nvr = tasks[2]
    /\ results[3].nvr = tasks[3]

\* C12: with at least one --build option the run never enters a discovery
\* path (no tag is queried, no image metadata is read, no pool is started)
\* and the records fetched are those of the options, in their order and
\* multiplicity; with none the run never enters the manual path and enters
\* only the discovery path of its --kind.
C12_ModesExclusive ==
    /\ (Len(builds) > 0 =>
            /\ pc \in {"start", "manual", "resolved", "add", "done", "exit1", "crashed"}
            /\ mapfn = "none"
            /\ tasks = <<>>
            /\ initial_builds = <<>>
            /\ potential_builds = <<>>
            /\ tagC = {}
            /\ tagS = {}
            /\ Len(results) <= Len(builds)
            /\ NvrsOf(results) = SubSeq(builds, 1, Len(results))
            /\ (pc \in {"resolved", "add", "done"} => NvrsOf(results) = builds))
    /\ (Len(builds) = 0 =>
            /\ pc # "manual"
            /\ (kind = "rpm" =>
                    /\ pc \notin {"image", "image_map1", "image_map2"}
                    /\ mapfn # "get_latest_build_info"
                    /\ initial_builds = <<>>)
            /\ (kind = "image" =>
                    /\ pc \notin {"rpm", "rpm_map"}
                    /\ (mapfn = "get_brew_build" => Len(potential_builds) = Len(tasks)))
            /\ (pc \in {"resolved", "add", "done"} => mapfn = "get_brew_build"))

\* C12 witness: two --build options were given together with --kind image,
\* and the run attached their two records without any discovery.
C12_Witness ==
    /\ Len(builds) = 2
    /\ kind = "image"
    /\ et.add_builds = 1
    /\ NvrsOf(et.add_builds_arg) = builds
    /\ mapfn = "none"

\* a remote service has reported an authentication failure: to the probe or
\* to get_erratum / add_builds (reported by exit_unauthenticated), or as
\* the first failure of the enrichment
AuthFailed == echo.error = "Unauthenticated" \/ fetchError = "Unauthenticated"
\* what the remote calls made so far have left: the fetches of the pool, the
\* records fetched, the tags queried and the calls of the advisory service
RemoteCalls ==
    <<fetches, results, potential_builds, tagC, tagS,
      et.get_filtered_list, et.get_erratum, et.add_builds>>
\* the pcs in which a run that has failed can be
FailurePcs == {"exit1", "crashed", "raising"} \cup MapPcs

\* C13 as stated: after an authentication failure at any stage the run is
\* on its way to a failure end and no remote call is made any more, by
\* nobody; a failed probe leaves nothing discovered, enriched or attached.
C13_NoCallAfterAuthFailure ==
    [][/\ (AuthFailed => RemoteCalls' = RemoteCalls /\ pc' \in FailurePcs)
       /\ (pc = "start" /\ pc' = "exit1" =>
               /\ mapfn' = "none"
               /\ results' = <<>>
               /\ et'.get_erratum = 0
               /\ et'.add_builds = 0)]_vars

\* C13 amended: after an authentication failure the run is on its way to a
\* failure end, the main thread makes no remote call any more (no probe, no
\* discovery, no advisory call, no attachment) and no candidate is fetched
\* twice; only the worker threads of a pool go on fetching the other
\* candidates until the process ends. A failed probe leaves nothing
\* discovered, enriched or attached.
C13_AuthFailureIsFatal ==
    [][/\ (AuthFailed =>
               /\ pc' \in FailurePcs
               /\ et' = et
               /\ tagC' = tagC
               /\ tagS' = tagS
               /\ unshipped_builds' = unshipped_builds
               /\ echo' = echo
               /\ \A i \in DOMAIN fetches' : fetches'[i] <= 1
               /\ (pc \notin PoolPcs => RemoteCalls' = RemoteCalls))
       /\ (pc = "start" /\ pc' = "exit1" =>
               /\ mapfn' = "none"
               /\ results' = <<>>
               /\ et'.get_erratum = 0
               /\ et'.add_builds = 0)]_vars

\* C13 witness: a fetch of the pool was refused for authentication, the
\* failure is being raised in the main thread, and a worker thread has
\* another candidate in flight.
C13_Witness ==
    /\ fetchError = "Unauthenticated"
    /\ pc = "raising"
    /\ \E w \in 1 .. MaxWorkers : worker[w] # 0

\* the package name of an nvr: the part in front of the version
NameOfNvr(s) == s[1]
\* the modes of a run
AutoImage == Len(builds) = 0 /\ kind = "image"
AutoRpm == Len(builds) = 0 /\ kind = "rpm"
Manual == Len(builds) > 0

\* C14: in automatic image mode no build whose name is on the non_release
\* list is handed to the enrichment, is in the final list, is attached or
\* is reported, and every other image's build is handed to the enrichment;
\* in automatic rpm mode every candidate is enriched and in manual mode
\* every --build is in the final list, whatever the list says.
C14_NonReleaseImageOnly ==
    /\ (AutoImage =>
            /\ (mapfn = "get_brew_build" =>
                    /\ \A i \in DOMAIN tasks : NameOfNvr(tasks[i]) \notin non_release
                    /\ {NameOfNvr(tasks[i]) : i \in DOMAIN tasks} =
                         SeqToSet(initial_builds) \ non_release)
            /\ \A i \in DOMAIN results :
                 results[i] # NoRecord => NameOfNvr(results[i].nvr) \notin non_release
            /\ \A i \in DOMAIN unshipped_builds :
                 NameOfNvr(unshipped_builds[i].nvr) \notin non_release
            /\ \A i \in DOMAIN et.add_builds_arg :
                 NameOfNvr(et.add_builds_arg[i].nvr) \notin non_release
            /\ \A i \in DOMAIN echo.lines : NameOfNvr(echo.lines[i]) \notin non_release)
    /\ (AutoRpm /\ mapfn = "get_brew_build" =>
            /\ SeqToSet(tasks) = find_unshipped_build_candidates(tagC, tagS)
            /\ (PoolReturned => unshipped_builds = NotAttached(results)))
    /\ (Manual /\ pc \in {"resolved", "add", "done"} =>
            NvrsOf(unshipped_builds) = builds)

\* C14 witness: of two images one is on the non_release list; only the
\* build of the other was enriched and is the final list.
C14_Witness ==
    /\ AutoImage
    /\ pc = "resolved"
    /\ Len(initial_builds) = 2
    /\ initial_builds[1] \in non_release
    /\ Len(unshipped_builds) = 1
    /\ NameOfNvr(unshipped_builds[1].nvr) = initial_builds[2]

\* the enrichment has ended and its records were made the final list
Resolved == pc \in {"resolved", "add", "done"} \/ et.get_erratum > 0

C16_FilterIdempotent ==
    /\ \A m \in {"manual", "image", "rpm"} :
         ViabilityFilter(m, ViabilityFilter(m, results)) = ViabilityFilter(m, results)
    /\ (Resolved =>
            ViabilityFilter(ModeOf(builds, kind), unshipped_builds) = unshipped_builds)
    /\ (LatestReturning =>
            NonReleaseFilter(NonReleaseFilter(potential_builds, non_release), non_release)
                = NonReleaseFilter(potential_builds, non_release))
    /\ (AutoImage /\ mapfn = "get_brew_build" =>
            NonReleaseFilter(potential_builds, non_release) = potential_builds)

\* C16 witness: in automatic rpm mode the filter removed two of three
\* records, and the one it kept is the final list.
C16_Witness ==
    /\ AutoRpm
    /\ pc = "resolved"
    /\ Len(results) = 3
    /\ Len(unshipped_builds) = 1
    /\ unshipped_builds = ViabilityFilter("rpm", results)

\* the pool has been joined: every task was handed out and has completed,
\* each after one fetch, and no worker has a task in flight
Joined ==
    /\ next = Len(tasks) + 1
    /\ completed = 1 .. Len(tasks)
    /\ \A i \in DOMAIN fetches : fetches[i] = 1
    /\ \A w \in 1 .. MaxWorkers : worker[w] = 0

\* C18: in automatic mode, once the filter on the enriched records has been
\* evaluated (the final list is made) and from then on, when the advisory
\* is fetched, add_builds is called or the list is reported, the pool is
\* joined: every candidate dispatched has completed and no worker has a
\* candidate in flight.
C18_FilterAfterJoin ==
    Len(builds) = 0 /\ (Resolved \/ et.add_builds > 0 \/ echo.shown) => Joined

\* C18 witness: three candidates were enriched by two workers, the filter
\* was evaluated and add_builds was called.
C18_Witness ==
    /\ AutoRpm
    /\ ncpu = 2
    /\ Len(tasks) = 3
    /\ et.add_builds = 1
    /\ Joined

\* the workers that have a task in flight
InFlight == {w \in 1 .. MaxWorkers : worker[w] # 0}

\* C19: while a pool.map runs, at most ncpu workers have a candidate in
\* flight, no two workers have the same candidate, a candidate in flight
\* was taken from the queue and has been neither fetched nor completed, a
\* candidate still in the queue has not been fetched, and no candidate is
\* ever fetched more than once.
C19_OneWorkerOneFetch ==
    /\ Cardinality(InFlight) <= ncpu
    /\ \A w \in InFlight : w <= ncpu
    /\ \A w, v \in InFlight : worker[w] = worker[v] => w = v
    /\ \A w \in InFlight :
         /\ worker[w] \in DOMAIN tasks
         /\ worker[w] < next
         /\ fetches[worker[w]] = 0
         /\ worker[w] \notin completed
    /\ \A i \in DOMAIN fetches :
         /\ fetches[i] <= 1
         /\ (i >= next => fetches[i] = 0)
         /\ (i \in completed => fetches[i] = 1)
    /\ next <= Len(tasks) + 1

\* C19 witness: in a pool of two workers both have a candidate in flight
\* while a third candidate waits in the queue.
C19_Witness ==
    /\ pc \in MapPcs
    /\ ncpu = 2
    /\ Cardinality(InFlight) = 2
    /\ worker[1] # worker[2]
    /\ next = 3
    /\ Len(tasks) = 3

(***************************************************************************)
(* Claims about advisory:create                                            *)
(***************************************************************************)
\* the release date was calculated from the latest advisory
Calculated == cpc = "dated" /\ ~date_given

\* C9: the calculated release date (21 days after the previous release
\* date, then adjusted) always falls on a Tuesday.
C9_AlwaysTuesday == Calculated => DayOfWeek(release_date) = Tuesday

\* C9 witness: for each of the 7 days of the week some adjusted or
\* unadjusted calculation has ended; here one that needed the adjustment.
C9_Witness == Calculated /\ adjusted /\ DayOfWeek(latest_date) = 0

\* C10 as stated: the adjustment never moves the date later, and moves it
\* at most 6 days earlier.
C10_NeverLater ==
    Calculated =>
        /\ release_date <= latest_date + ReleaseInterval
        /\ release_date >= latest_date + ReleaseInterval - 6

\* C10 amended: the result is the Tuesday of the Sunday-to-Saturday week of
\* R + 21: 2 or 1 days later when R + 21 is a Sunday or a Monday, 1 to 4
\* days earlier when it is a Wednesday to Saturday, never more than 4 days
\* earlier nor more than 2 days later.
C10_SameWeekTuesday ==
    Calculated =>
        LET target == latest_date + ReleaseInterval
            dow == DayOfWeek(target)
        IN /\ release_date - target = Tuesday - dow
           /\ release_date - target \in -4 .. 2
           /\ (dow < Tuesday => release_date > target)
           /\ (dow > Tuesday => release_date < target)

\* C10 witness: R = 2024-01-01 (day 19723, a Monday); R + 21 is Monday
\* 2024-01-22 and the result is Tuesday 2024-01-23, one day later.
C10_Witness ==
    /\ Calculated
    /\ latest_date = 19723
    /\ DayOfWeek(latest_date) = 1
    /\ release_date = 19745

(***************************************************************************)
(* Claims about advisory:find-bugs                                         *)
(***************************************************************************)
\* C17: without --add, in automatic and in manual mode and whatever --flag
\* says, no flag is set on any bug, the advisory is neither fetched nor
\* given any bug, nothing is printed as added or failed, and a run that
\* ends normally has printed the list of the bugs found as the bugs it
\* would have added.
C17_NoAddNoRemoteChange ==
    bug_advisory = NoAdvisory =>
        /\ bz_flags = [b \in BugIds |-> {}]
        /\ advisory_bugs = {}
        /\ bug_calls = BugCallsIdle
        /\ bug_echo.added = <<>>
        /\ bug_echo.failed = <<>>
        /\ (bpc = "done" => bug_echo.would_have /\ bug_echo.listed = bug_ids)

\* C17 witness: an automatic run with --flag bro_ok and without --add found
\* two bugs and ended with the list of the two.
C17_Witness ==
    /\ bug_advisory = NoAdvisory
    /\ auto
    /\ flag = <<"bro_ok">>
    /\ bpc = "done"
    /\ Len(bug_ids) = 2
    /\ bug_echo.would_have
    /\ bug_echo.listed = bug_ids

(***************************************************************************)
(* Claims about bugzilla:find-transitions                                  *)
(***************************************************************************)
\* C20: over the runs made so far, whether they ended normally or with a
\* failure, no bug carries the invalid-transition comment more than once,
\* and when the loop comes to a bug, every bug of the list before it
\* carries the whiteboard value.
C20_CommentAtMostOnce ==
    /\ \A b \in BugIds : bz_comments[b] <= 1
    /\ (tpc = "check" =>
            \A j \in 1 .. (found_k - 1) : bz_whiteboard[found[j]])

====
